---------------------------- MODULE Spec2Model ----------------------------
(***************************************************************************)
(* A model of the websocket bridge of guac (src/ws_server.go):             *)
(*   - WebsocketServer.ServeHTTP, the per-connection orchestration with    *)
(*     its stack of deferred calls,                                        *)
(*   - wsToGuacd, the inbound pump (browser transport -> tunnel writer),   *)
(*   - guacdToWs, the outbound pump (tunnel reader -> browser transport)   *)
(*     with its accumulation buffer and flush rule.                        *)
(* Every variable is a function over the connections; a step of the model  *)
(* is one call that a task makes on the transport, the tunnel or a         *)
(* callback, together with the local computation that follows it up to     *)
(* the next such call.                                                     *)
(***************************************************************************)
EXTENDS Integers, Sequences, FiniteSets, TLC

(***************************************************************************)
(* Bounds of the model.                                                    *)
(***************************************************************************)
\* The model's value of the maximum message size.  The program's value is
\* larger; every length below is measured against this one definition.
MsgCap == 3
\* Number of ReadSome / ReadMessage calls that return data, per pump, in
\* the specifications that run one pump on its own.
MaxReads == 3
\* The same, in the specification of whole connections.
ServeReads == 1
\* Largest number of logger configuration calls.
MaxSets == 2

\* The connections served (goroutines running ServeHTTP).
Conns == {"c1", "c2"}
\* The connection that the one-connection specifications run.
First == "c1"
\* Connection identifiers the daemon may assign (two connections may join
\* the same identifier).
Ids == {"id1", "id2"}
\* The byte values payloads are made of.
Bytes == {"0", "."}

(***************************************************************************)
(* Program constants and pure helpers.                                     *)
(***************************************************************************)
\* MaxGuacMessage, used at ws_server.go:62,63,175,195.
MaxGuacMessage == MsgCap

\* ws_server.go:63: the transport's write buffer.
websocketWriteBufferSize == MaxGuacMessage * 2

\* internalOpcodeIns: the encoded element "0." of the empty internal opcode.
internalOpcodeIns == <<"0", ".">>

\* All payloads of 1..n bytes.
Payloads(n) == UNION {[1..k -> Bytes] : k \in 1..n}

\* k padding bytes.
Pad(k) == [i \in 1..k |-> "."]

\* Instructions ReadSome may return: every way of matching or missing the
\* internal opcode in the leading bytes, padded to every length up to
\* MaxGuacMessage (the Stream never returns more than that).
Instructions ==
  {h \o Pad(k) : h \in Payloads(Len(internalOpcodeIns)), k \in 0..MaxGuacMessage} \cap
  UNION {[1..k -> Bytes] : k \in 1..MaxGuacMessage}

\* Messages ReadMessage may return.
Messages == Instructions

\* The inputs of the whole-connection specification: one control payload,
\* one payload that is forwarded.
ServeInputs == {internalOpcodeIns, <<".">>}

\* bytes.HasPrefix
HasPrefix(s, p) == Len(s) >= Len(p) /\ SubSeq(s, 1, Len(p)) = p

IsInternalMsg_Never(data) == FALSE

\* ws_server.go:155: bytes.HasPrefix(data, internalOpcodeIns)
IsInternalMsg(data) == HasPrefix(data, internalOpcodeIns)

IsInternalIns_Never(ins) == FALSE

\* ws_server.go:184: bytes.HasPrefix(ins, internalOpcodeIns)
IsInternalIns(ins) == HasPrefix(ins, internalOpcodeIns)

ShouldFlush_NoCap(more, n) == ~more

ShouldFlush_Always(more, n) == TRUE

\* ws_server.go:195: !guacd.Available() || buf.Len() >= MaxGuacMessage
ShouldFlush(more, n) == ~more \/ n >= MaxGuacMessage

RECURSIVE Concat(_)
\* The concatenation of a sequence of byte strings.
Concat(ss) == IF ss = <<>> THEN <<>> ELSE Head(ss) \o Concat(Tail(ss))

IsPrefixOf(s, t) == Len(s) <= Len(t) /\ SubSeq(t, 1, Len(s)) = s

Last(s) == s[Len(s)]

VARIABLES
  \* ---- WebsocketServer and ServeHTTP ----
  srv,         \* the server's fields: which connect function and callbacks are set
  pc,          \* ServeHTTP's position, per connection
  defers,      \* ServeHTTP's stack of deferred calls (the last one runs first)
  events,      \* history: the calls ServeHTTP made, in order
  connId,      \* id := tunnel.ConnectionID()
  wsState,     \* the transport: "none", "open", "closed"
  tunState,    \* the tunnel: "none", "open", "closed"
  tunCloses,   \* number of tunnel.Close calls
  readerHeld,  \* the tunnel's reader handle is acquired
  writerHeld,  \* the tunnel's writer handle is acquired
  ConnIds,     \* the session registry wired to OnConnect / OnDisconnect
  \* ---- the inbound pump wsToGuacd ----
  pcIn,        \* "none" (not started), "read", "write", "done"
  inData,      \* the message read and not yet written to the tunnel
  inLog,       \* history: the messages ReadMessage returned
  twrites,     \* history: the byte strings written to the tunnel writer
  inExit,      \* why the pump returned: "", "read", "write"
  \* ---- the outbound pump guacdToWs ----
  pcOut,       \* "none", "read", "write", "done"
  outExit,     \* why the pump returned: "", "read", "closeSent", "write"
  buf,         \* the accumulation buffer
  avail,       \* the Stream: another complete instruction is buffered
  readLog,     \* history: [ins, more] for every ReadSome that returned
  sent,        \* history: the messages written to the transport
  \* ---- logging ----
  logger,      \* the server's logger field points at: "global" or "custom"
  globalLogger,\* the package-level logger
  customLogger,\* the logger handed to NewWebsocketServer, when one was
  ctxRead,     \* UpdateContext: the context it read and is about to extend
  closedEv,    \* the log event built by the defer statement of line 131
  logOut,      \* history: the log entries that reached a sink
  sets,        \* history: the SetLogger / SetLogLevel(Console) calls made
  \* ---- the /sessions/ handler of the demo server ----
  listing      \* its last response, with the registry it was computed from

serveVars == <<srv, pc, defers, events, connId, wsState, tunState, tunCloses,
               readerHeld, writerHeld, ConnIds>>

inVars == <<pcIn, inData, inLog, twrites, inExit>>

outVars == <<pcOut, outExit, buf, avail, readLog, sent>>

logCfg == <<logger, globalLogger, customLogger, ctxRead, closedEv, sets>>

logVars == <<logCfg, logOut>>

appVars == <<listing>>

vars == <<srv, pc, defers, events, connId, wsState, tunState, tunCloses,
          readerHeld, writerHeld, ConnIds, pcIn, inData, inLog, twrites,
          inExit, pcOut, outExit, buf, avail, readLog, sent,
          logger, globalLogger, customLogger, ctxRead, closedEv, logOut, sets,
          listing>>

(***************************************************************************)
(* Logging.  A zerolog.Logger is a sink, a level and a context (here the   *)
(* connection_id fields added to it); the levels are zerolog's numbers.    *)
(***************************************************************************)
TraceLevel == -1
DebugLevel == 0
InfoLevel == 1
WarnLevel == 2
ErrorLevel == 3
Disabled == 7

\* zerolog.New(w).Level(level)
NewLogger(w, level) == [sink |-> w, level |-> level, ctx |-> <<>>]

createDefaultLogger_Info == NewLogger("discard", InfoLevel)

\* zerolog.New(io.Discard).Level(zerolog.Disabled)
createDefaultLogger == NewLogger("discard", Disabled)

\* *s.logger: serverLogger := &globalLogger unless a logger was passed.
CurLogger == IF logger = "global" THEN globalLogger ELSE customLogger

\* An event of this level is written by logger l.
Should(l, level) == level >= l.level

\* A log statement: its source line, its level and the connection_id
\* field the statement itself adds ("" when it adds none).
Msg(line, level, id) == [line |-> line, level |-> level, id |-> id]

\* The entries that the statements ms of connection c put out through l;
\* what is written to io.Discard is no output.
Written(c, l, ms) ==
  {[conn |-> c, line |-> m.line, level |-> m.level, id |-> m.id,
    sink |-> l.sink, ctx |-> l.ctx] :
     m \in {x \in ms : Should(l, x.level) /\ l.sink # "discard"}}

\* Connection c runs the log statements ms on the server's logger.
Emit(c, ms) ==
  /\ logOut' = logOut \cup Written(c, CurLogger, ms)
  /\ UNCHANGED <<logCfg, appVars>>

\* A step that logs nothing.
NoLog == UNCHANGED <<logVars, appVars>>

(***************************************************************************)
(* wsToGuacd (ws_server.go:146-166)                                        *)
(***************************************************************************)
\* ws.ReadMessage() returned data; a message that starts with the internal
\* opcode is skipped (continue), any other goes on to guacd.Write.
WsReadMessage(c, Msgs, n) ==
  /\ pcIn[c] = "read"
  /\ wsState[c] = "open"
  /\ Len(inLog[c]) < n
  /\ \E data \in Msgs :
       /\ inLog' = [inLog EXCEPT ![c] = Append(@, data)]
       /\ IF IsInternalMsg(data)
            THEN UNCHANGED <<pcIn, inData>>
            ELSE /\ pcIn' = [pcIn EXCEPT ![c] = "write"]
                 /\ inData' = [inData EXCEPT ![c] = data]
  /\ NoLog
  /\ UNCHANGED <<twrites, inExit, serveVars, outVars>>

\* ws.ReadMessage() returned an error: the pump returns.
WsReadMessageErr(c) ==
  /\ pcIn[c] = "read"
  /\ pcIn' = [pcIn EXCEPT ![c] = "done"]
  /\ inExit' = [inExit EXCEPT ![c] = "read"]
  /\ Emit(c, {Msg(150, TraceLevel, ""), Msg(151, WarnLevel, "")})
  /\ UNCHANGED <<inData, inLog, twrites, serveVars, outVars>>

\* guacd.Write(data) succeeded.
GuacdWrite(c) ==
  /\ pcIn[c] = "write"
  /\ tunState[c] = "open"
  /\ twrites' = [twrites EXCEPT ![c] = Append(@, inData[c])]
  /\ inData' = [inData EXCEPT ![c] = <<>>]
  /\ pcIn' = [pcIn EXCEPT ![c] = "read"]
  /\ NoLog
  /\ UNCHANGED <<inLog, inExit, serveVars, outVars>>

\* guacd.Write(data) returned an error: the pump returns.
GuacdWriteErr(c) ==
  /\ pcIn[c] = "write"
  /\ pcIn' = [pcIn EXCEPT ![c] = "done"]
  /\ inExit' = [inExit EXCEPT ![c] = "write"]
  /\ Emit(c, {Msg(161, TraceLevel, ""), Msg(162, ErrorLevel, "")})
  /\ UNCHANGED <<inData, inLog, twrites, serveVars, outVars>>

(***************************************************************************)
(* guacdToWs (ws_server.go:174-207)                                        *)
(***************************************************************************)
\* What the pump does with an instruction that is not dropped: append it,
\* then decide on the flush.  more is what Available() returns.
AfterAppend(c, ins, more) ==
  LET b == buf[c] \o ins IN
  /\ buf' = [buf EXCEPT ![c] = b]
  /\ pcOut' = [pcOut EXCEPT ![c] =
                 IF ShouldFlush(more, Len(b)) THEN "write" ELSE "read"]

\* guacd.ReadSome() returned ins, and more complete instructions are
\* buffered behind it or not (none behind the last one the model reads).
ReadSome(c, Ins, n) ==
  /\ pcOut[c] = "read"
  /\ tunState[c] = "open"
  /\ Len(readLog[c]) < n
  /\ \E ins \in Ins :
     \E more \in (IF Len(readLog[c]) + 1 < n THEN BOOLEAN ELSE {FALSE}) :
       /\ readLog' = [readLog EXCEPT ![c] = Append(@, [ins |-> ins, more |-> more])]
       /\ avail' = [avail EXCEPT ![c] = more]
       /\ IF IsInternalIns(ins)
            THEN UNCHANGED <<buf, pcOut>>
            ELSE AfterAppend(c, ins, more)
  /\ NoLog
  /\ UNCHANGED <<outExit, sent, serveVars, inVars>>

\* guacd.ReadSome() returned an error.  A buffered complete instruction
\* is returned without touching the connection, so the read fails only
\* when nothing is buffered.
ReadSomeErr(c) ==
  /\ pcOut[c] = "read"
  /\ ~avail[c]
  /\ pcOut' = [pcOut EXCEPT ![c] = "done"]
  /\ outExit' = [outExit EXCEPT ![c] = "read"]
  /\ Emit(c, {Msg(180, WarnLevel, "")})
  /\ UNCHANGED <<buf, avail, readLog, sent, serveVars, inVars>>

WriteMessage_NoReset(c) ==
  /\ pcOut[c] = "write"
  /\ wsState[c] = "open"
  /\ sent' = [sent EXCEPT ![c] = Append(@, buf[c])]
  /\ pcOut' = [pcOut EXCEPT ![c] = "read"]
  /\ NoLog
  /\ UNCHANGED <<buf, outExit, avail, readLog, serveVars, inVars>>

\* ws.WriteMessage(1, buf.Bytes()) succeeded; buf.Reset().
WriteMessage(c) ==
  /\ pcOut[c] = "write"
  /\ wsState[c] = "open"
  /\ sent' = [sent EXCEPT ![c] = Append(@, buf[c])]
  /\ buf' = [buf EXCEPT ![c] = <<>>]
  /\ pcOut' = [pcOut EXCEPT ![c] = "read"]
  /\ NoLog
  /\ UNCHANGED <<outExit, avail, readLog, serveVars, inVars>>

WriteMessageErr_RetryCloseSent(c) ==
  /\ pcOut[c] = "write"
  /\ \E e \in {"closeSent", "write"} :
       /\ outExit' = [outExit EXCEPT ![c] = e]
       /\ Emit(c, IF e = "closeSent" THEN {Msg(198, DebugLevel, "")}
                                     ELSE {Msg(201, WarnLevel, "")})
       /\ pcOut' = [pcOut EXCEPT ![c] = IF e = "closeSent" THEN "write" ELSE "done"]
  /\ UNCHANGED <<buf, avail, readLog, sent, serveVars, inVars>>

\* ws.WriteMessage returned an error, websocket.ErrCloseSent or another:
\* the pump returns either way.
WriteMessageErr(c) ==
  /\ pcOut[c] = "write"
  /\ \E e \in {"closeSent", "write"} :
       /\ outExit' = [outExit EXCEPT ![c] = e]
       /\ Emit(c, IF e = "closeSent" THEN {Msg(198, DebugLevel, "")}
                                     ELSE {Msg(201, WarnLevel, "")})
  /\ pcOut' = [pcOut EXCEPT ![c] = "done"]
  /\ UNCHANGED <<buf, avail, readLog, sent, serveVars, inVars>>

\* The same successful read once the histories are no longer kept: the
\* pump's buffer and position change as in ReadSome, readLog does not.
ReadSomeUnlogged(c, Ins) ==
  /\ pcOut[c] = "read"
  /\ tunState[c] = "open"
  /\ \E ins \in Ins :
     \E more \in BOOLEAN :
       /\ avail' = [avail EXCEPT ![c] = more]
       /\ IF IsInternalIns(ins)
            THEN UNCHANGED <<buf, pcOut>>
            ELSE AfterAppend(c, ins, more)
  /\ NoLog
  /\ UNCHANGED <<readLog, outExit, sent, serveVars, inVars>>

\* The same successful write once the histories are no longer kept.
WriteMessageUnlogged(c) ==
  /\ pcOut[c] = "write"
  /\ wsState[c] = "open"
  /\ buf' = [buf EXCEPT ![c] = <<>>]
  /\ pcOut' = [pcOut EXCEPT ![c] = "read"]
  /\ NoLog
  /\ UNCHANGED <<sent, outExit, avail, readLog, serveVars, inVars>>

(***************************************************************************)
(* The pumps on their own, called with a transport and a tunnel handle     *)
(* that stay open (their calls may still fail at any time).                *)
(***************************************************************************)
NoServer == [connectWs |-> FALSE, OnConnect |-> FALSE, OnDisconnect |-> FALSE,
             OnConnectWs |-> FALSE, OnDisconnectWs |-> FALSE]

InitCommon ==
  /\ defers = [c \in Conns |-> <<>>]
  /\ events = [c \in Conns |-> <<>>]
  /\ connId = [c \in Conns |-> ""]
  /\ tunCloses = [c \in Conns |-> 0]
  /\ readerHeld = [c \in Conns |-> FALSE]
  /\ writerHeld = [c \in Conns |-> FALSE]
  /\ ConnIds = <<>>
  /\ inData = [c \in Conns |-> <<>>]
  /\ inLog = [c \in Conns |-> <<>>]
  /\ twrites = [c \in Conns |-> <<>>]
  /\ inExit = [c \in Conns |-> ""]
  /\ outExit = [c \in Conns |-> ""]
  /\ buf = [c \in Conns |-> <<>>]
  /\ avail = [c \in Conns |-> FALSE]
  /\ readLog = [c \in Conns |-> <<>>]
  /\ sent = [c \in Conns |-> <<>>]
  /\ ctxRead = [c \in Conns |-> <<>>]
  /\ closedEv = [c \in Conns |-> {}]
  /\ logOut = {}
  /\ sets = <<>>
  /\ listing = [reg |-> <<>>, out |-> <<>>]

\* The package as loaded and a server built with a nil logger.
DefaultLogging ==
  /\ logger = "global"
  /\ globalLogger = createDefaultLogger
  /\ customLogger = createDefaultLogger

\* A server built with a logger of its own, at Trace level.
CustomLogging ==
  /\ logger = "custom"
  /\ globalLogger = createDefaultLogger
  /\ customLogger = NewLogger("buf", TraceLevel)

InitPump ==
  /\ InitCommon
  /\ DefaultLogging
  /\ srv = NoServer
  /\ pc = [c \in Conns |-> "none"]
  /\ wsState = [c \in Conns |-> IF c = First THEN "open" ELSE "none"]
  /\ tunState = [c \in Conns |-> IF c = First THEN "open" ELSE "none"]

InitIn ==
  /\ InitPump
  /\ pcIn = [c \in Conns |-> IF c = First THEN "read" ELSE "none"]
  /\ pcOut = [c \in Conns |-> "none"]

NextIn ==
  \/ WsReadMessage(First, Messages, MaxReads)
  \/ WsReadMessageErr(First)
  \/ GuacdWrite(First)
  \/ GuacdWriteErr(First)

SpecIn == InitIn /\ [][NextIn]_vars

InitOut ==
  /\ InitPump
  /\ pcIn = [c \in Conns |-> "none"]
  /\ pcOut = [c \in Conns |-> IF c = First THEN "read" ELSE "none"]

NextOut ==
  \/ ReadSome(First, Instructions, MaxReads)
  \/ ReadSomeErr(First)
  \/ WriteMessage(First)
  \/ WriteMessageErr(First)

SpecOut == InitOut /\ [][NextOut]_vars

(***************************************************************************)
(* The session registry wired to the callbacks: wsServer.OnConnect =       *)
(* sessions.Add, wsServer.OnDisconnect = sessions.Delete.                  *)
(***************************************************************************)
\* Add(id, ...): increment the identifier's count, creating the entry.
Add(reg, id) ==
  IF id \in DOMAIN reg
    THEN [reg EXCEPT ![id] = @ + 1]
    ELSE [i \in DOMAIN reg \cup {id} |-> IF i = id THEN 1 ELSE reg[i]]

\* Delete(id, ...): decrement it, removing the entry at zero.
Delete(reg, id) ==
  IF id \notin DOMAIN reg THEN reg
  ELSE IF reg[id] > 1 THEN [reg EXCEPT ![id] = @ - 1]
  ELSE [i \in DOMAIN reg \ {id} |-> reg[i]]

(***************************************************************************)
(* WebsocketServer.ServeHTTP (ws_server.go:66-138)                         *)
(***************************************************************************)
Call(op, id) == [op |-> op, id |-> id]

Push(c, ds) == defers' = [defers EXCEPT ![c] = @ \o ds]

Log(c, op) == events' = [events EXCEPT ![c] = Append(@, Call(op, connId[c]))]

Upgrade_NoDeferClose(c) ==
  /\ pc[c] = "upgrade"
  /\ wsState' = [wsState EXCEPT ![c] = "open"]
  /\ Log(c, "Upgrade")
  /\ pc' = [pc EXCEPT ![c] = "connect"]
  /\ NoLog
  /\ UNCHANGED <<srv, defers, connId, tunState, tunCloses, readerHeld,
                 writerHeld, ConnIds, inVars, outVars>>

\* upgrader.Upgrade succeeded: defer ws.Close().
Upgrade(c) ==
  /\ pc[c] = "upgrade"
  /\ wsState' = [wsState EXCEPT ![c] = "open"]
  /\ Push(c, <<Call("ws.Close", "")>>)
  /\ Log(c, "Upgrade")
  /\ pc' = [pc EXCEPT ![c] = "connect"]
  /\ NoLog
  /\ UNCHANGED <<srv, connId, tunState, tunCloses, readerHeld, writerHeld,
                 ConnIds, inVars, outVars>>

UpgradeErr_NoReturn(c) ==
  /\ pc[c] = "upgrade"
  /\ Log(c, "UpgradeErr")
  /\ pc' = [pc EXCEPT ![c] = "connect"]
  /\ Emit(c, {Msg(79, ErrorLevel, "")})
  /\ UNCHANGED <<srv, defers, connId, wsState, tunState, tunCloses,
                 readerHeld, writerHeld, ConnIds, inVars, outVars>>

\* upgrader.Upgrade failed: ServeHTTP returns, nothing is deferred yet.
UpgradeErr(c) ==
  /\ pc[c] = "upgrade"
  /\ Log(c, "UpgradeErr")
  /\ pc' = [pc EXCEPT ![c] = "returned"]
  /\ Emit(c, {Msg(79, ErrorLevel, "")})
  /\ UNCHANGED <<srv, defers, connId, wsState, tunState, tunCloses,
                 readerHeld, writerHeld, ConnIds, inVars, outVars>>

\* The name of the connect function that is set (ws_server.go:91-95).
ConnectFn == IF srv.connectWs THEN "connectWs" ELSE "connect"

\* s.connect(r) or s.connectWs(ws, r) returned a tunnel: defer
\* tunnel.Close(), id := tunnel.ConnectionID().  The step ends inside
\* s.logger.UpdateContext, which has read the logger's context: it is not
\* synchronised with the other connections of the server.
Connect(c) ==
  /\ pc[c] = "connect"
  /\ \E id \in Ids :
       /\ connId' = [connId EXCEPT ![c] = id]
       /\ events' = [events EXCEPT ![c] = Append(@, Call(ConnectFn, id))]
  /\ tunState' = [tunState EXCEPT ![c] = "open"]
  /\ Push(c, <<Call("tunnel.Close", "")>>)
  /\ logOut' = logOut \cup Written(c, CurLogger, {Msg(88, TraceLevel, ""),
                                                   Msg(104, TraceLevel, "")})
  /\ ctxRead' = [ctxRead EXCEPT ![c] = CurLogger.ctx]
  /\ pc' = [pc EXCEPT ![c] = "updateContext"]
  /\ UNCHANGED <<srv, wsState, tunCloses, readerHeld, writerHeld, ConnIds,
                 inVars, outVars, logger, globalLogger, customLogger,
                 closedEv, sets, appVars>>

\* The logger l with the context ctx.
WithContext(l, ctx) == [l EXCEPT !.ctx = ctx]

\* s.logger.UpdateContext(... c.Str("connection_id", id)) stores the
\* context it read, extended by the identifier, in the logger s.logger
\* points at; then the "websocket connection established" line.
UpdateContext(c) ==
  /\ pc[c] = "updateContext"
  /\ LET l == WithContext(CurLogger, Append(ctxRead[c], connId[c])) IN
       /\ IF logger = "global"
            THEN globalLogger' = l /\ UNCHANGED customLogger
            ELSE customLogger' = l /\ UNCHANGED globalLogger
       /\ logOut' = logOut \cup Written(c, l, {Msg(113, TraceLevel, connId[c])})
  /\ pc' = [pc EXCEPT ![c] = "onConnect"]
  /\ UNCHANGED <<srv, defers, events, connId, wsState, tunState, tunCloses,
                 readerHeld, writerHeld, ConnIds, inVars, outVars,
                 logger, ctxRead, closedEv, sets, appVars>>

\* The connect function returned an error: return (the deferred ws.Close
\* runs).
ConnectErr(c) ==
  /\ pc[c] = "connect"
  /\ Log(c, "connectErr")
  /\ pc' = [pc EXCEPT ![c] = "unwind"]
  /\ Emit(c, {Msg(88, TraceLevel, "")})
  /\ UNCHANGED <<srv, defers, connId, wsState, tunState, tunCloses,
                 readerHeld, writerHeld, ConnIds, inVars, outVars>>

\* if s.OnConnect != nil { s.OnConnect(id, r) }
OnConnect(c) ==
  /\ pc[c] = "onConnect"
  /\ IF srv.OnConnect
       THEN /\ Log(c, "OnConnect")
            /\ ConnIds' = Add(ConnIds, connId[c])
       ELSE UNCHANGED <<events, ConnIds>>
  /\ pc' = [pc EXCEPT ![c] = "onConnectWs"]
  /\ NoLog
  /\ UNCHANGED <<srv, defers, connId, wsState, tunState, tunCloses,
                 readerHeld, writerHeld, inVars, outVars>>

\* if s.OnConnectWs != nil { s.OnConnectWs(id, ws, r) }
OnConnectWs(c) ==
  /\ pc[c] = "onConnectWs"
  /\ IF srv.OnConnectWs THEN Log(c, "OnConnectWs") ELSE UNCHANGED events
  /\ pc' = [pc EXCEPT ![c] = "acquireWriter"]
  /\ NoLog
  /\ UNCHANGED <<srv, defers, connId, wsState, tunState, tunCloses,
                 readerHeld, writerHeld, ConnIds, inVars, outVars>>

\* writer := tunnel.AcquireWriter()
AcquireWriter(c) ==
  /\ pc[c] = "acquireWriter"
  /\ writerHeld' = [writerHeld EXCEPT ![c] = TRUE]
  /\ Log(c, "AcquireWriter")
  /\ pc' = [pc EXCEPT ![c] = "acquireReader"]
  /\ NoLog
  /\ UNCHANGED <<srv, defers, connId, wsState, tunState, tunCloses,
                 readerHeld, ConnIds, inVars, outVars>>

AcquireReader_Skip(c) ==
  /\ pc[c] = "acquireReader"
  /\ pc' = [pc EXCEPT ![c] = "start"]
  /\ NoLog
  /\ UNCHANGED <<srv, defers, events, connId, wsState, tunState, tunCloses,
                 readerHeld, writerHeld, ConnIds, inVars, outVars>>

\* reader := tunnel.AcquireReader()
AcquireReader(c) ==
  /\ pc[c] = "acquireReader"
  /\ readerHeld' = [readerHeld EXCEPT ![c] = TRUE]
  /\ Log(c, "AcquireReader")
  /\ pc' = [pc EXCEPT ![c] = "start"]
  /\ NoLog
  /\ UNCHANGED <<srv, defers, connId, wsState, tunState, tunCloses,
                 writerHeld, ConnIds, inVars, outVars>>

DisconnectDefers_Twice(s, id) ==
  (IF s.OnDisconnect THEN <<Call("OnDisconnect", id), Call("OnDisconnect", id)>> ELSE <<>>)
  \o (IF s.OnDisconnectWs THEN <<Call("OnDisconnectWs", id)>> ELSE <<>>)

\* ws_server.go:125-130: the disconnect callbacks that are set, deferred
\* in this order with the id evaluated now.
DisconnectDefers(s, id) ==
  (IF s.OnDisconnect THEN <<Call("OnDisconnect", id)>> ELSE <<>>)
  \o (IF s.OnDisconnectWs THEN <<Call("OnDisconnectWs", id)>> ELSE <<>>)

ReleaseDefers_None == <<>>

\* ws_server.go:131-134: the closing log line and the two releases.
ReleaseDefers ==
  <<Call("logClosed", ""), Call("ReleaseWriter", ""), Call("ReleaseReader", "")>>

\* ws_server.go:125-137: the defers, go wsToGuacd(...), and the call of
\* guacdToWs(...), which runs on this task.
StartPumps(c) ==
  /\ pc[c] = "start"
  /\ Push(c, DisconnectDefers(srv, connId[c]) \o ReleaseDefers)
  /\ closedEv' = [closedEv EXCEPT ![c] =
                    Written(c, CurLogger, {Msg(131, TraceLevel, connId[c])})]
  /\ pcIn' = [pcIn EXCEPT ![c] = "read"]
  /\ pcOut' = [pcOut EXCEPT ![c] = "read"]
  /\ pc' = [pc EXCEPT ![c] = "pump"]
  /\ UNCHANGED <<srv, events, connId, wsState, tunState, tunCloses,
                 readerHeld, writerHeld, ConnIds, inData, inLog, twrites,
                 inExit, outExit, buf, avail, readLog, sent,
                 logger, globalLogger, customLogger, ctxRead, logOut, sets,
                 appVars>>

\* guacdToWs returned: ServeHTTP returns, its deferred calls run.
PumpReturns(c) ==
  /\ pc[c] = "pump"
  /\ pcOut[c] = "done"
  /\ pc' = [pc EXCEPT ![c] = "unwind"]
  /\ NoLog
  /\ UNCHANGED <<srv, defers, events, connId, wsState, tunState, tunCloses,
                 readerHeld, writerHeld, ConnIds, inVars, outVars>>

NextDeferred_Fifo(ds) == Head(ds)

\* Go runs deferred calls last in, first out.
NextDeferred(ds) == Last(ds)

RestDeferred(ds) ==
  IF NextDeferred(ds) = Last(ds) THEN SubSeq(ds, 1, Len(ds) - 1) ELSE Tail(ds)

\* One deferred call runs.
RunDeferred(c) ==
  /\ pc[c] = "unwind"
  /\ defers[c] # <<>>
  /\ LET d == NextDeferred(defers[c]) IN
       /\ defers' = [defers EXCEPT ![c] = RestDeferred(defers[c])]
       /\ events' = [events EXCEPT ![c] = Append(@, d)]
       /\ wsState' = IF d.op = "ws.Close"
                       THEN [wsState EXCEPT ![c] = "closed"] ELSE wsState
       /\ tunState' = IF d.op = "tunnel.Close"
                        THEN [tunState EXCEPT ![c] = "closed"] ELSE tunState
       /\ tunCloses' = IF d.op = "tunnel.Close"
                         THEN [tunCloses EXCEPT ![c] = @ + 1] ELSE tunCloses
       /\ readerHeld' = IF d.op = "ReleaseReader"
                          THEN [readerHeld EXCEPT ![c] = FALSE] ELSE readerHeld
       /\ writerHeld' = IF d.op = "ReleaseWriter"
                          THEN [writerHeld EXCEPT ![c] = FALSE] ELSE writerHeld
       /\ ConnIds' = IF d.op = "OnDisconnect"
                       THEN Delete(ConnIds, d.id) ELSE ConnIds
       /\ logOut' = IF d.op = "logClosed"
                      THEN logOut \cup closedEv[c] ELSE logOut
  /\ UNCHANGED <<srv, pc, connId, inVars, outVars, logCfg, appVars>>

\* Every deferred call has run: ServeHTTP has returned.
Return(c) ==
  /\ pc[c] = "unwind"
  /\ defers[c] = <<>>
  /\ pc' = [pc EXCEPT ![c] = "returned"]
  /\ NoLog
  /\ UNCHANGED <<srv, defers, events, connId, wsState, tunState, tunCloses,
                 readerHeld, writerHeld, ConnIds, inVars, outVars>>

\* The steps of ServeHTTP itself.
ServeHTTP(c) ==
  \/ Upgrade(c)
  \/ UpgradeErr(c)
  \/ Connect(c)
  \/ UpdateContext(c)
  \/ ConnectErr(c)
  \/ OnConnect(c)
  \/ OnConnectWs(c)
  \/ AcquireWriter(c)
  \/ AcquireReader(c)
  \/ StartPumps(c)
  \/ PumpReturns(c)
  \/ RunDeferred(c)
  \/ Return(c)

\* A server as NewWebsocketServer or NewWebsocketServerWs builds it, with
\* any of the four callbacks set, and a request arrived for each of cs.
InitServe(cs) ==
  /\ InitCommon
  /\ srv \in [connectWs : BOOLEAN, OnConnect : BOOLEAN, OnDisconnect : BOOLEAN,
              OnConnectWs : BOOLEAN, OnDisconnectWs : BOOLEAN]
  /\ pc = [c \in Conns |-> IF c \in cs THEN "upgrade" ELSE "none"]
  /\ wsState = [c \in Conns |-> "none"]
  /\ tunState = [c \in Conns |-> "none"]
  /\ pcIn = [c \in Conns |-> "none"]
  /\ pcOut = [c \in Conns |-> "none"]

(***************************************************************************)
(* Spec: one connection, from the upgrade to the return of ServeHTTP, with *)
(* both pumps moving data.                                                 *)
(***************************************************************************)
Init == InitServe({First}) /\ DefaultLogging

Next ==
  \/ ServeHTTP(First)
  \/ WsReadMessage(First, ServeInputs, ServeReads)
  \/ WsReadMessageErr(First)
  \/ GuacdWrite(First)
  \/ GuacdWriteErr(First)
  \/ ReadSome(First, ServeInputs, ServeReads)
  \/ ReadSomeErr(First)
  \/ WriteMessage(First)
  \/ WriteMessageErr(First)

Spec == Init /\ [][Next]_vars

(***************************************************************************)
(* SpecTwo: two connections served concurrently by one server, sharing the *)
(* registry; neither the browser nor the daemon sends anything, so each    *)
(* pump ends on its first read.                                            *)
(***************************************************************************)
InitTwo == InitServe(Conns) /\ DefaultLogging

NextTwo ==
  \E c \in Conns :
    \/ ServeHTTP(c)
    \/ WsReadMessageErr(c)
    \/ ReadSomeErr(c)

SpecTwo == InitTwo /\ [][NextTwo]_vars

(***************************************************************************)
(* SpecShared: two connections served concurrently by one server without   *)
(* callbacks, built with a nil logger or with a logger of its own.         *)
(***************************************************************************)
InitShared ==
  /\ InitServe(Conns)
  /\ srv = NoServer
  /\ DefaultLogging \/ CustomLogging

SpecShared == InitShared /\ [][NextTwo]_vars

(***************************************************************************)
(* Properties of the pumps.                                                *)
(***************************************************************************)
\* The payloads of a log that do not start with the internal opcode.
NonControl(log) == SelectSeq(log, LAMBDA m : ~HasPrefix(m, internalOpcodeIns))

\* The instructions ReadSome returned so far, in read order.
InsRead(c) == [i \in 1..Len(readLog[c]) |-> readLog[c][i].ins]

\* C1: the byte strings written to the tunnel writer are exactly the
\* messages read that do not start with the internal opcode, verbatim and
\* in the order read (the last of them may still be on its way to the
\* writer, or lost with the write that ended the pump); no message that
\* starts with the opcode is written.
C1_InboundForwardsExactlyNonControl ==
  LET f == NonControl(inLog[First])
      w == twrites[First]
  IN /\ IsPrefixOf(w, f)
     /\ Len(f) - Len(w) <= 1
     /\ pcIn[First] = "read" => w = f
     /\ pcIn[First] = "write" => f = Append(w, inData[First])
     /\ \A i \in 1..Len(w) : ~HasPrefix(w[i], internalOpcodeIns)

\* A control message was read between two forwarded ones, which both
\* reached the tunnel writer.
C1_Witness ==
  /\ Len(inLog[First]) = 3
  /\ ~HasPrefix(inLog[First][1], internalOpcodeIns)
  /\ HasPrefix(inLog[First][2], internalOpcodeIns)
  /\ Len(inLog[First][2]) > Len(internalOpcodeIns)
  /\ twrites[First] = <<inLog[First][1], inLog[First][3]>>

\* C2: what the outbound pump has written to the transport, followed by what
\* waits in its buffer, is byte for byte the non-control instructions read:
\* nothing of an instruction that begins with the internal opcode is in any
\* message, whatever precedes or follows it in the batch.
C2_OutboundDropsControl ==
  Concat(sent[First]) \o buf[First] = Concat(NonControl(InsRead(First)))

\* A control instruction read in the middle of a batch (more was buffered
\* before and after it) and the batch went out without it.
C2_Witness ==
  /\ Len(readLog[First]) = 3
  /\ readLog[First][1].more /\ readLog[First][2].more
  /\ ~HasPrefix(readLog[First][1].ins, internalOpcodeIns)
  /\ HasPrefix(readLog[First][2].ins, internalOpcodeIns)
  /\ ~HasPrefix(readLog[First][3].ins, internalOpcodeIns)
  /\ sent[First] = <<readLog[First][1].ins \o readLog[First][3].ins>>

\* The first k messages written end on a boundary between instructions.
OnBoundary(c, k) ==
  \E j \in 0..Len(NonControl(InsRead(c))) :
    Concat(SubSeq(sent[c], 1, k)) = Concat(SubSeq(NonControl(InsRead(c)), 1, j))

\* C3: at every point the messages written so far, concatenated, are a
\* prefix of the non-control instructions read so far, concatenated in read
\* order; every message ends where an instruction ends (none is split,
\* duplicated or reordered); and the buffer is empty after each successful
\* flush.
C3_OutboundOrderPreserved ==
  /\ [](/\ IsPrefixOf(Concat(sent[First]), Concat(NonControl(InsRead(First))))
        /\ \A k \in 1..Len(sent[First]) : OnBoundary(First, k))
  /\ [][sent'[First] # sent[First] => buf'[First] = <<>>]_vars

\* Two flushes, the first of a batch of two different instructions.
C3_Witness ==
  /\ Len(sent[First]) = 2
  /\ Len(readLog[First]) = 3
  /\ readLog[First][1].ins # readLog[First][2].ins
  /\ sent[First][1] = readLog[First][1].ins \o readLog[First][2].ins
  /\ sent[First][2] = readLog[First][3].ins

\* N >= 2 non-control instructions, of total size below the cap, were all
\* buffered before any flush: Available() was true after each of the first
\* N-1 reads and false after the N-th.
BatchOfSmall(c) ==
  LET n == Len(readLog[c]) IN
  /\ n >= 2
  /\ \A i \in 1..n : ~HasPrefix(readLog[c][i].ins, internalOpcodeIns)
  /\ \A i \in 1..(n - 1) : readLog[c][i].more
  /\ ~readLog[c][n].more
  /\ Len(Concat(InsRead(c))) < MaxGuacMessage

\* C4: such a batch goes out as exactly one transport message holding all N
\* instructions in order: it is the message being written, or the only one
\* written.
C4_BatchIsOneMessage ==
  BatchOfSmall(First) =>
    /\ pcOut[First] = "write" =>
         sent[First] = <<>> /\ buf[First] = Concat(InsRead(First))
    /\ pcOut[First] = "read" =>
         sent[First] = <<Concat(InsRead(First))>> /\ buf[First] = <<>>
    /\ pcOut[First] = "done" =>
         sent[First] \in {<<>>, <<Concat(InsRead(First))>>}

C4_Witness ==
  /\ BatchOfSmall(First)
  /\ sent[First] = <<Concat(InsRead(First))>>

\* The step appended an instruction to the accumulation buffer.
Appended(c) == Len(readLog'[c]) > Len(readLog[c]) /\ buf'[c] # buf[c]

\* C5: after each append the pump goes on to write the buffer if and only
\* if Available() is false or the buffer has reached the cap, and the write
\* sends the whole buffer as one message.
C5_FlushRule ==
  /\ [][Appended(First) =>
          (pcOut'[First] = "write" <=>
             (~avail'[First] \/ Len(buf'[First]) >= MaxGuacMessage))]_vars
  /\ [][sent'[First] # sent[First] =>
          pcOut[First] = "write" /\ sent'[First] = Append(sent[First], buf[First])]_vars

\* One instruction as large as the cap is being flushed although more is
\* available.
C5_Witness ==
  /\ pcOut[First] = "write"
  /\ avail[First]
  /\ Len(readLog[First]) = 1
  /\ buf[First] = readLog[First][1].ins
  /\ Len(buf[First]) = MaxGuacMessage

\* C6, as stated: every message written to the transport is at most
\* MaxGuacMessage long.
C6_MessageWithinCap ==
  \A i \in 1..Len(sent[First]) : Len(sent[First][i]) <= MaxGuacMessage

\* C6, amended: every message written to the transport is shorter than
\* twice MaxGuacMessage (a buffer one byte short of the cap may take one
\* more instruction of up to the cap before it is flushed).
C6_MessageBelowTwiceCap ==
  \A i \in 1..Len(sent[First]) : Len(sent[First][i]) <= 2 * MaxGuacMessage - 1

\* A message of 2 * MaxGuacMessage - 1 bytes was written.
C6_Witness ==
  \E i \in 1..Len(sent[First]) : Len(sent[First][i]) = 2 * MaxGuacMessage - 1

\* C7: whenever the pump calls ReadSome while no complete instruction is
\* available (the read may block), its accumulation buffer is empty.
C7_NoBlockingReadWithPendingData ==
  (pcOut[First] = "read" /\ ~avail[First]) => buf[First] = <<>>

(***************************************************************************)
(* Properties of ServeHTTP.                                                *)
(***************************************************************************)
\* How often ServeHTTP made the call op for connection c.
Count(c, op) == Cardinality({i \in 1..Len(events[c]) : events[c][i].op = op})

\* The place of the first call op in the calls of connection c, or 0.
Pos(c, op) ==
  LET at == {i \in 1..Len(events[c]) : events[c][i].op = op}
  IN IF at = {} THEN 0 ELSE CHOOSE i \in at : \A j \in at : i <= j

\* Call a was made, and before call b, if b was made at all.
Precedes(c, a, b) == Pos(c, b) # 0 => (Pos(c, a) # 0 /\ Pos(c, a) < Pos(c, b))

\* C8: when ServeHTTP has returned for a connection whose connect function
\* returned a tunnel, the outbound pump has returned and the reader and
\* the writer handle were released, every registered disconnect callback
\* was fired, tunnel.Close was called exactly once and the transport was
\* closed, whatever ended the pump.
C8_UnconditionalCleanup ==
  (pc[First] = "returned" /\ tunState[First] # "none") =>
    /\ pcOut[First] = "done"
    /\ Count(First, "ReleaseReader") >= 1 /\ ~readerHeld[First]
    /\ Count(First, "ReleaseWriter") >= 1 /\ ~writerHeld[First]
    /\ srv.OnDisconnect => Count(First, "OnDisconnect") >= 1
    /\ srv.OnDisconnectWs => Count(First, "OnDisconnectWs") >= 1
    /\ Count(First, "tunnel.Close") = 1
    /\ tunCloses[First] = 1 /\ tunState[First] = "closed"
    /\ Count(First, "ws.Close") >= 1 /\ wsState[First] = "closed"

\* ServeHTTP returned after the pump ended on a write to a transport that
\* had sent its close frame, with both disconnect callbacks registered.
C8_Witness ==
  /\ pc[First] = "returned"
  /\ outExit[First] = "closeSent"
  /\ srv.OnDisconnect /\ srv.OnDisconnectWs
  /\ tunCloses[First] = 1

\* The callbacks, each with the server field that registers it.
ConnectCallbacks == {"OnConnect", "OnConnectWs"}

DisconnectCallbacks == {"OnDisconnect", "OnDisconnectWs"}

\* Callback calls made for identifier id, over all connections.
Fired(op, id) ==
  LET n[cs \in SUBSET Conns] ==
        IF cs = {} THEN 0
        ELSE LET c == CHOOSE x \in cs : TRUE
             IN Cardinality({i \in 1..Len(events[c]) :
                               events[c][i] = Call(op, id)}) + n[cs \ {c}]
  IN n[Conns]

\* C9: a registered connect callback fires exactly once for a connection
\* whose upgrade and connect function succeeded, a registered disconnect
\* callback fires exactly once for it, with the same identifier and after
\* the connect callbacks; none fires when the upgrade or the connect
\* function failed; so with Add and Delete registered, adds minus deletes
\* of an identifier is never negative, is the registry's count, and is zero
\* once all connections have finished.
C9_CallbackPairing ==
  /\ \A c \in Conns :
       /\ \A k \in ConnectCallbacks \cup DisconnectCallbacks :
            /\ Count(c, k) <= 1
            /\ pc[c] = "returned" =>
                 Count(c, k) = IF srv[k] /\ tunState[c] # "none" THEN 1 ELSE 0
       /\ \A k \in ConnectCallbacks :
            (srv[k] /\ pc[c] \in {"acquireWriter", "acquireReader", "start", "pump"})
              => Count(c, k) = 1
       /\ \A d \in DisconnectCallbacks : \A k \in ConnectCallbacks :
            srv[k] => Precedes(c, k, d)
       /\ \A i \in 1..Len(events[c]) :
            events[c][i].op \in ConnectCallbacks \cup DisconnectCallbacks
              => events[c][i].id = connId[c] /\ connId[c] \in Ids
  /\ (srv.OnConnect /\ srv.OnDisconnect) =>
       /\ \A id \in Ids :
            /\ Fired("OnConnect", id) - Fired("OnDisconnect", id) >= 0
            /\ Fired("OnConnect", id) - Fired("OnDisconnect", id)
                 = IF id \in DOMAIN ConnIds THEN ConnIds[id] ELSE 0
            /\ id \in DOMAIN ConnIds => ConnIds[id] > 0
       /\ (\A c \in Conns : pc[c] = "returned") => ConnIds = <<>>

\* Two connections joined the same identifier; the first has returned, its
\* callbacks fired, and the second still holds the identifier's count at 1.
C9_Witness ==
  /\ srv.OnConnect /\ srv.OnDisconnect /\ srv.OnConnectWs /\ srv.OnDisconnectWs
  /\ pc["c1"] = "returned" /\ pc["c2"] = "pump"
  /\ connId["c1"] = "id1" /\ connId["c2"] = "id1"
  /\ Count("c1", "OnDisconnect") = 1
  /\ ConnIds = [i \in {"id1"} |-> 1]

\* A pump of connection c has been started or has moved data.
PumpsStarted(c) ==
  \/ pcIn[c] # "none" \/ pcOut[c] # "none"
  \/ inLog[c] # <<>> \/ twrites[c] # <<>> \/ readLog[c] # <<>> \/ sent[c] # <<>>

\* C10: the upgrade completes before the connect function is called, the
\* connect function returns a tunnel before any connect callback fires, and
\* every registered connect callback has fired, once, before a pump starts
\* or moves anything; after a failed upgrade the connect function is never
\* called; after a failed connect no handle is acquired and no pump starts.
C10_OrchestrationOrder ==
  /\ Precedes(First, "Upgrade", ConnectFn)
  /\ Precedes(First, "Upgrade", "connectErr")
  /\ \A k \in ConnectCallbacks :
       /\ Precedes(First, ConnectFn, k)
       /\ Count(First, k) <= 1
       /\ PumpsStarted(First) => (srv[k] => Count(First, k) = 1)
       /\ Precedes(First, k, "AcquireWriter")
          \/ (~srv[k] /\ Count(First, k) = 0)
  /\ PumpsStarted(First) =>
       /\ Pos(First, "AcquireWriter") # 0 /\ Pos(First, "AcquireReader") # 0
       /\ Pos(First, ConnectFn) # 0
  /\ Pos(First, "UpgradeErr") # 0 =>
       /\ Pos(First, ConnectFn) = 0 /\ Pos(First, "connectErr") = 0
       /\ tunState[First] = "none" /\ wsState[First] = "none"
       /\ ~PumpsStarted(First)
  /\ Pos(First, "connectErr") # 0 =>
       /\ Pos(First, "AcquireWriter") = 0 /\ Pos(First, "AcquireReader") = 0
       /\ ~readerHeld[First] /\ ~writerHeld[First]
       /\ ~PumpsStarted(First)
       /\ \A k \in ConnectCallbacks : Count(First, k) = 0

\* Both pumps have moved data after both connect callbacks fired.
C10_Witness ==
  /\ srv.OnConnect /\ srv.OnConnectWs
  /\ Len(twrites[First]) >= 1
  /\ Len(sent[First]) >= 1
  /\ Count(First, "OnConnect") = 1 /\ Count(First, "OnConnectWs") = 1

(***************************************************************************)
(* Further properties of the outbound pump and of the teardown.            *)
(***************************************************************************)
\* C18: with every instruction at most MaxGuacMessage long, the
\* accumulation buffer holds fewer than MaxGuacMessage bytes at the start
\* of every loop iteration (the pump is about to call ReadSome) and never
\* holds twice MaxGuacMessage or more, so what is flushed fits the
\* transport's write buffer.
C18_BufferBound ==
  /\ pcOut[First] = "read" => Len(buf[First]) < MaxGuacMessage
  /\ Len(buf[First]) < 2 * MaxGuacMessage
  /\ pcOut[First] = "write" => Len(buf[First]) <= websocketWriteBufferSize

\* The buffer holds one byte less than twice the cap, and is being flushed.
C18_Witness ==
  /\ pcOut[First] = "write"
  /\ Len(buf[First]) = 2 * MaxGuacMessage - 1

\* The calls ServeHTTP made for connection c, by name.
Ops(c) == [i \in 1..Len(events[c]) |-> events[c][i].op]

\* The calls of a sequence that are in the set keep.
Only(ops, keep) == SelectSeq(ops, LAMBDA o : o \in keep)

TeardownOps ==
  {"ReleaseReader", "ReleaseWriter", "OnDisconnectWs", "OnDisconnect",
   "tunnel.Close", "ws.Close"}

\* The teardown of a server s, in the order the claim gives.
TeardownOrder(s) ==
  <<"ReleaseReader", "ReleaseWriter">>
  \o (IF s.OnDisconnectWs THEN <<"OnDisconnectWs">> ELSE <<>>)
  \o (IF s.OnDisconnect THEN <<"OnDisconnect">> ELSE <<>>)
  \o <<"tunnel.Close", "ws.Close">>

\* C19: on every exit of ServeHTTP after the pumps were started the
\* teardown runs ReleaseReader, ReleaseWriter, OnDisconnectWs (if set),
\* OnDisconnect (if set), tunnel.Close, ws.Close, in this order; so a
\* disconnect callback is never called with a closed tunnel, and the
\* disconnect callbacks run in the reverse order of the connect callbacks.
C19_TeardownOrder ==
  /\ [](PumpsStarted(First) =>
          /\ IsPrefixOf(Only(Ops(First), TeardownOps), TeardownOrder(srv))
          /\ pc[First] = "returned" =>
               Only(Ops(First), TeardownOps) = TeardownOrder(srv)
          /\ (srv.OnConnect /\ srv.OnConnectWs /\ srv.OnDisconnect
                /\ srv.OnDisconnectWs /\ pc[First] = "returned") =>
               /\ Pos(First, "OnConnect") < Pos(First, "OnConnectWs")
               /\ Pos(First, "OnDisconnectWs") < Pos(First, "OnDisconnect"))
  /\ [][\A d \in DisconnectCallbacks :
          Count(First, d)' > Count(First, d) => tunState[First] = "open"]_vars

\* ServeHTTP returned with all four callbacks set.
C19_Witness ==
  /\ pc[First] = "returned"
  /\ srv.OnConnect /\ srv.OnConnectWs /\ srv.OnDisconnect /\ srv.OnDisconnectWs
  /\ Only(Ops(First), TeardownOps) =
       <<"ReleaseReader", "ReleaseWriter", "OnDisconnectWs", "OnDisconnect",
         "tunnel.Close", "ws.Close">>

(***************************************************************************)
(* SpecLive: one connection that may go on for ever.  The daemon may keep  *)
(* sending, so the outbound pump's steps are the unlogged ones.  Fairness: *)
(* the accepting task and the inbound task are scheduled; every tunnel     *)
(* read or write and every transport write returns, with a result or an    *)
(* error (the Stream's I/O is bounded by its timeout); a transport read    *)
(* has no deadline and is only sure to return once the transport has been  *)
(* closed.                                                                 *)
(***************************************************************************)
NextLive ==
  \/ ServeHTTP(First)
  \/ WsReadMessage(First, ServeInputs, ServeReads)
  \/ WsReadMessageErr(First)
  \/ GuacdWrite(First)
  \/ GuacdWriteErr(First)
  \/ ReadSomeUnlogged(First, ServeInputs)
  \/ ReadSomeErr(First)
  \/ WriteMessageUnlogged(First)
  \/ WriteMessageErr(First)

FairLive ==
  /\ WF_vars(ServeHTTP(First))
  /\ WF_vars(ReadSomeUnlogged(First, ServeInputs) \/ ReadSomeErr(First))
  /\ WF_vars(WriteMessageUnlogged(First) \/ WriteMessageErr(First))
  /\ WF_vars(GuacdWrite(First) \/ GuacdWriteErr(First))
  /\ WF_vars(wsState[First] = "closed" /\ WsReadMessageErr(First))

SpecLive == Init /\ [][NextLive]_vars /\ FairLive

(***************************************************************************)
(* SpecList: the demo server (logger_test.go, func main): its websocket    *)
(* server has OnConnect = sessions.Add and OnDisconnect = sessions.Delete, *)
(* and its /sessions/ handler lists the registry.                          *)
(***************************************************************************)
\* &ConnIds{Uuid: id, Num: num}
Pair(id, num) == [Uuid |-> id, Num |-> num]

\* An element of make([]*ConnIds, n) that was never assigned.
Nil == [Uuid |-> "", Num |-> 0]

\* The slice the handler's loop leaves behind when the map iteration ends
\* with identifier last: i stays 0, so every pair is stored in element 0.
Listed(reg, last) ==
  [k \in 1..Cardinality(DOMAIN reg) |->
     IF k = 1 THEN Pair(last, reg[last]) ELSE Nil]

\* The /sessions/ handler, under the registry's read lock.  The order of a
\* map iteration is not defined: any identifier can come last.
Sessions ==
  /\ IF DOMAIN ConnIds = {}
       THEN listing' = [reg |-> ConnIds, out |-> <<>>]
       ELSE \E last \in DOMAIN ConnIds :
              listing' = [reg |-> ConnIds, out |-> Listed(ConnIds, last)]
  /\ UNCHANGED <<serveVars, inVars, outVars, logVars>>

\* The callbacks main wires to the server.
DemoServer == [connectWs |-> FALSE, OnConnect |-> TRUE, OnDisconnect |-> TRUE,
               OnConnectWs |-> FALSE, OnDisconnectWs |-> FALSE]

InitList ==
  /\ InitServe(Conns)
  /\ srv = DemoServer
  /\ DefaultLogging

NextList ==
  \/ NextTwo
  \/ Sessions

SpecList == InitList /\ [][NextList]_vars

(***************************************************************************)
(* SpecLog: the application configures the package logger while a server   *)
(* built with a nil logger serves one connection.                          *)
(***************************************************************************)
\* The levels the application asks for.
LogLevels == {TraceLevel, InfoLevel, Disabled}

\* The loggers the application hands over (as logger_test.go:22).
Loggers == {NewLogger("buf", DebugLevel)}

\* A configuration call installed l as the package logger.
Install(fn, level, sink, l) ==
  /\ Len(sets) < MaxSets
  /\ globalLogger' = l
  /\ sets' = Append(sets, [fn |-> fn, level |-> level, sink |-> sink])
  /\ UNCHANGED <<serveVars, inVars, outVars, logger, customLogger, ctxRead,
                 closedEv, logOut, appVars>>

\* func SetLogger(l zerolog.Logger) { globalLogger = l }
SetLogger(l) == Install("SetLogger", l.level, l.sink, l)

SetLogLevel_Info(level) ==
  Install("SetLogLevel", level, "", NewLogger("stderr", InfoLevel))

\* globalLogger = zerolog.New(os.Stderr).With().Timestamp().Logger().Level(level)
SetLogLevel(level) ==
  Install("SetLogLevel", level, "", NewLogger("stderr", level))

\* globalLogger = zerolog.New(zerolog.ConsoleWriter{Out: os.Stderr})...Level(level)
SetLogLevelConsole(level) ==
  Install("SetLogLevelConsole", level, "", NewLogger("console", level))

\* func GetLogger() zerolog.Logger { return globalLogger }
GetLogger == globalLogger

InitLog ==
  /\ InitServe({First})
  /\ srv = NoServer
  /\ DefaultLogging

NextLog ==
  \/ \E l \in Loggers : SetLogger(l)
  \/ \E level \in LogLevels : SetLogLevel(level)
  \/ \E level \in LogLevels : SetLogLevelConsole(level)
  \/ ServeHTTP(First)
  \/ WsReadMessageErr(First)
  \/ ReadSomeErr(First)

SpecLog == InitLog /\ [][NextLog]_vars

(***************************************************************************)
(* Properties of the pumps inside a connection.                            *)
(***************************************************************************)
\* C13: a pump stops at its first error: once the inbound pump has seen a
\* transport read error or a tunnel write error it has returned and makes
\* no further read or write; once the outbound pump has seen a tunnel read
\* error or a transport write error, the close-sent error like any other,
\* it has returned and makes no further read or write.
C13_StopAtFirstError ==
  /\ [](/\ inExit[First] # "" => pcIn[First] = "done"
        /\ outExit[First] # "" => pcOut[First] = "done")
  /\ [][inExit[First] # "" =>
          /\ pcIn'[First] = "done" /\ inExit'[First] = inExit[First]
          /\ inLog'[First] = inLog[First] /\ twrites'[First] = twrites[First]]_vars
  /\ [][outExit[First] # "" =>
          /\ pcOut'[First] = "done" /\ outExit'[First] = outExit[First]
          /\ readLog'[First] = readLog[First] /\ sent'[First] = sent[First]
          /\ buf'[First] = buf[First]]_vars

\* Both pumps have ended on an error, the outbound one on the close-sent
\* error, after each had moved data.
C13_Witness ==
  /\ inExit[First] = "write" /\ outExit[First] = "closeSent"
  /\ Len(inLog[First]) >= 1 /\ Len(readLog[First]) >= 1

\* C14: each handle is acquired exactly once per connection, before the
\* pumps start; the tunnel is read only by the outbound pump, which runs on
\* the accepting task inside ServeHTTP's call of guacdToWs and holds the
\* reader handle, and written only by the inbound pump task, the one task
\* that StartPumps launched.
C14_OneTaskPerDirection ==
  /\ [](/\ Count(First, "AcquireReader") <= 1
        /\ Count(First, "AcquireWriter") <= 1
        /\ PumpsStarted(First) =>
             Count(First, "AcquireReader") = 1 /\ Count(First, "AcquireWriter") = 1)
  /\ [][readLog'[First] # readLog[First] =>
          pc[First] = "pump" /\ pcOut[First] = "read" /\ readerHeld[First]]_vars
  /\ [][twrites'[First] # twrites[First] =>
          pcIn[First] = "write" /\ Count(First, "AcquireWriter") = 1]_vars

\* Both directions have moved data on handles acquired once each.
C14_Witness ==
  /\ Len(readLog[First]) >= 1 /\ Len(twrites[First]) >= 1
  /\ Count(First, "AcquireReader") = 1 /\ Count(First, "AcquireWriter") = 1

\* The connection of c has been torn down: its tunnel is closed and every
\* registered disconnect callback has fired.
TornDown(c) ==
  /\ tunState[c] = "closed"
  /\ \A op \in DisconnectCallbacks : srv[op] => Count(c, op) = 1

\* C11: when the inbound pump has terminated on a transport read error or
\* a tunnel write error, the connection is eventually torn down: the tunnel
\* is closed and the disconnect callbacks fire.
C11_InboundErrorEndsConnection == (inExit[First] # "") ~> TornDown(First)

\* C12: once ServeHTTP has returned for a connection whose pumps were
\* started, having closed the tunnel and the transport, the inbound pump
\* eventually terminates on its own.
C12_PeerPumpTerminates ==
  (pc[First] = "returned" /\ pcIn[First] # "none") ~> (pcIn[First] = "done")

\* ServeHTTP has returned and closed both ends while the inbound pump is
\* still inside its loop.
C12_Witness ==
  /\ pc[First] = "returned" /\ pcIn[First] \in {"read", "write"}
  /\ wsState[First] = "closed" /\ tunState[First] = "closed"

(***************************************************************************)
(* Properties of logging.                                                  *)
(***************************************************************************)
\* The connection identifiers a log entry carries, from the logger's
\* context and from the statement's own connection_id field.
IdsOf(e) == {e.ctx[i] : i \in 1..Len(e.ctx)} \cup ({e.id} \ {""})

\* The log statements that run before the connection has an identifier.
EarlyLines == {79, 88, 104}

\* C20: serving a connection leaves the server's logger and the package
\* logger as they were, and every log entry put out for a connection
\* carries that connection's identifier and no other.
C20_LoggerIsolation ==
  /\ [][globalLogger' = globalLogger /\ customLogger' = customLogger]_vars
  /\ [](\A e \in logOut :
          /\ IdsOf(e) \subseteq {connId[e.conn]}
          /\ e.line \notin EarlyLines => connId[e.conn] \in IdsOf(e))

\* The levels of the package's log statements.
MsgLevels == {TraceLevel, DebugLevel, InfoLevel, WarnLevel, ErrorLevel}

\* C15: until SetLogger, SetLogLevel or SetLogLevelConsole is called, the
\* package logger, which is the logger of a server built with a nil logger,
\* has level Disabled, writes a message of no level, and nothing has been
\* put out.
C15_DisabledByDefault ==
  sets = <<>> =>
    /\ GetLogger.level = Disabled
    /\ \A level \in MsgLevels : ~Should(CurLogger, level)
    /\ logOut = {}

\* No configuration call was made and ServeHTTP has returned after both
\* pumps ran their error log statements.
C15_Witness ==
  /\ sets = <<>> /\ pc[First] = "returned"
  /\ inExit[First] = "read" /\ outExit[First] = "read"

\* C16: right after a configuration call GetLogger returns the logger that
\* call installed, with exactly the level asked for; the level and sink of
\* the package logger stay those of the most recent call; and after
\* SetLogger(l) a message at a level enabled in l is written to l's sink.
C16_LastWriterWins ==
  /\ [][Len(sets') > Len(sets) =>
          LET call == Last(sets') IN
            /\ GetLogger'.level = call.level
            /\ call.level # Disabled => GetLogger'.level # Disabled
            /\ call.fn = "SetLogger" =>
                 GetLogger' = NewLogger(call.sink, call.level)]_vars
  /\ [](sets # <<>> =>
          /\ GetLogger.level = Last(sets).level
          /\ Last(sets).fn = "SetLogger" => GetLogger.sink = Last(sets).sink)
  /\ [][(/\ sets # <<>> /\ Last(sets).fn = "SetLogger"
         /\ inExit[First] = "" /\ inExit'[First] = "read"
         /\ WarnLevel >= Last(sets).level) =>
          \E e \in logOut' \ logOut :
            e.line = 151 /\ e.level = WarnLevel /\ e.sink = Last(sets).sink]_vars

\* SetLogger was the last of two configuration calls and a warning of the
\* inbound pump reached its sink.
C16_Witness ==
  /\ Len(sets) = 2 /\ sets[1].fn # "SetLogger" /\ sets[2].fn = "SetLogger"
  /\ \E e \in logOut : e.line = 151 /\ e.sink = sets[2].sink

(***************************************************************************)
(* Properties of the session listing.                                      *)
(***************************************************************************)
\* C17: a response of the /sessions/ handler has one {uuid, count} pair for
\* every identifier of the registry it was computed from, each with that
\* identifier's count, and nothing else.
C17_ListingComplete ==
  /\ Len(listing.out) = Cardinality(DOMAIN listing.reg)
  /\ \A id \in DOMAIN listing.reg :
       \E k \in 1..Len(listing.out) :
         listing.out[k] = Pair(id, listing.reg[id])

(***************************************************************************)
(* Properties of the teardown against the pumps.                           *)
(***************************************************************************)
\* The inbound pump of c makes a call of guacd.Write in this step, whether
\* the call succeeds or fails.
WriteCalled(c) == pcIn[c] = "write" /\ pcIn'[c] # "write"

\* C21: the inbound pump calls Write on the tunnel writer only while
\* ServeHTTP has called neither ReleaseWriter nor tunnel.Close for the
\* connection.
C21_NoWriteAfterRelease ==
  [][WriteCalled(First) =>
       /\ Count(First, "ReleaseWriter") = 0
       /\ Count(First, "tunnel.Close") = 0]_vars

\* C22: when the outbound pump has returned because ReadSome failed, its
\* accumulation buffer is empty: every non-control instruction it read
\* has been written to the transport.
C22_NothingLostOnReadError ==
  outExit[First] = "read" => buf[First] = <<>>

=============================================================================
